---- MODULE Spec2Model ----
(***************************************************************************)
(* Model of nvbio-benchmarks.cu: the Sequences store (constructor and      *)
(* get_sequence), batch_alignment_test (packing, offset tables, timing)    *)
(* and the driver loop and throughput report of main.                      *)
(*                                                                         *)
(* Two specifications share the operators below.  Spec enumerates the      *)
(* store and the packed buffers byte by byte on small command lines.       *)
(* SizeSpec runs the same driver arithmetic on command lines whose         *)
(* buffers are too large to enumerate; it keeps sizes, offsets and         *)
(* counters and leaves the buffer contents out.                            *)
(***************************************************************************)
EXTENDS Integers, Sequences, FiniteSets, TLC

VARIABLES
    argc,                \* main's argc
    argv,                \* atoi of argv[2], argv[3], argv[4]: [seq, num, batch]
    pc,                  \* position in main / in the Sequences constructor
    batch_size,          \* size_t batch_size (main), as a signed 64-bit representative
    seq_size,            \* int seq_size (main) = Sequences::seq_len
    num_alignments,      \* int num_alignments (main) = Sequences::num_alignments
    sequences_buffer,    \* Sequences::sequences_buffer, one byte per element
    sequences_len,       \* Sequences::sequences_len
    sequences_read,      \* local of the constructor's read loop
    file,                \* the lines std::getline has returned so far
    alignments_computed, \* size_t alignments_computed (main)
    total_time,          \* double total_time (main), whole milliseconds
    issued,              \* the calls of batch_alignment_test made so far: [offset, n]
    cnt,                 \* int cnt (main): the batches announced, modulo CntPeriod
    batch_offset,        \* parameter of the latest batch_alignment_test call
    n_strings,           \* local of the latest batch_alignment_test call
    h_bytes,             \* n_strings * pattern_len as computed in uint32 (a word)
    h_pattern,           \* packed patterns of the latest call
    h_text,              \* packed texts of the latest call
    d_pattern_offsets,   \* offset table of the latest call (index -> uint32 word)
    d_text_offsets,      \* offset table of the latest call (index -> uint32 word)
    lookups,             \* every index handed to Sequences::get_sequence so far
    diag,                \* the error diagnosed on std::cerr, "none" if none
    exit_status,         \* <<status>> once the process has ended, <<>> before
    perf                 \* <<numerator>> of the printed GCUPs figure, <<>> before

vars == <<argc, argv, pc, batch_size, seq_size, num_alignments, sequences_buffer,
          sequences_len, sequences_read, file, alignments_computed, total_time,
          issued, cnt, batch_offset, n_strings, h_bytes, h_pattern, h_text,
          d_pattern_offsets, d_text_offsets, lookups, diag, exit_status, perf>>

(***************************************************************************)
(* Bounds of the model.                                                    *)
(***************************************************************************)
\* largest num_alignments argument of Spec
MaxPairs == 3
\* largest max_seq_len argument of Spec
MaxStride == 2
\* largest explicit batch_size argument of Spec
MaxBatch == 3
\* largest total of the TIMER_MS readings of a run
MaxMs == 1
\* most lines of the input file whose length is not marker plus stride
MaxIrregular == 1
\* the batch number cnt is kept modulo this period
CntPeriod == 2

(***************************************************************************)
(* Program constants.                                                      *)
(***************************************************************************)
\* size_t batch_size = 50000;
DefaultBatch == 50000
\* return EXIT_FAILURE;
ExitFailure == 1
\* exit(-1);
ExitMinusOne == -1

(***************************************************************************)
(* Fixed-width unsigned arithmetic.  A word is a little-endian sequence of *)
(* base-256 digits; k digits hold a value modulo 2^(8k).  An int that is   *)
(* converted to an unsigned type keeps its two's-complement digits.        *)
(***************************************************************************)
Base == 2^8

RECURSIVE Word(_, _)
Word(n, k) == IF k = 0 THEN <<>> ELSE <<n % Base>> \o Word(n \div Base, k - 1)

RECURSIVE ColumnSum(_, _, _, _)
ColumnSum(a, b, j, i) ==
    IF i > j THEN 0
    ELSE (IF i <= Len(a) /\ j + 1 - i <= Len(b) THEN a[i] * b[j + 1 - i] ELSE 0)
         + ColumnSum(a, b, j, i + 1)

\* (here and below a bound variable holds an intermediate value, so that
\* it is computed once)
RECURSIVE MulColumns(_, _, _, _, _)
MulColumns(a, b, j, carry, k) ==
    IF j > k THEN <<>>
    ELSE CHOOSE r \in {<<s % Base>> \o MulColumns(a, b, j + 1, s \div Base, k) :
                          s \in {ColumnSum(a, b, j, 1) + carry}} : TRUE

\* the low k digits of the product of the words a and b
MulMod(a, b, k) == CHOOSE r \in {MulColumns(x, y, 1, 0, k) : x \in {a}, y \in {b}} : TRUE

\* the word without its high zero digits: equal exactly for equal values
Norm(w) ==
    CHOOSE r \in {SubSeq(x, 1, CHOOSE m \in 0..Len(x) :
                                  /\ \A i \in (m + 1)..Len(x) : x[i] = 0
                                  /\ m > 0 => x[m] # 0) : x \in {w}} : TRUE

RECURSIVE DigitsFrom(_, _)
DigitsFrom(x, i) == IF i > Len(x) THEN 0 ELSE x[i] + Base * DigitsFrom(x, i + 1)

\* the value of a word that fits the checker's integers
ToNat(w) == CHOOSE r \in {DigitsFrom(x, 1) : x \in {w}} : TRUE

\* uint32 * uint32, as in n_strings * pattern_len and thrust::sequence
U32Mul(a, b) == MulMod(Word(a, 4), Word(b, 4), 4)

\* the exact product of two non-negative ints
ExactMul(a, b) == Norm(MulMod(Word(a, 4), Word(b, 4), 8))

\* a < b after both are converted to size_t
SizeT_Less(a, b) == IF (a < 0) = (b < 0) THEN a < b ELSE b < 0

SizeT_Min(a, b) == IF SizeT_Less(b, a) THEN b ELSE a

(***************************************************************************)
(* The command line (main, lines 205-230).                                 *)
(***************************************************************************)
\* the negation of: argc < 4 || argc > 5
ArgcOk(n) == ~(n < 4 \/ n > 5)

\* batch_size before the clamp: the default, or atoi(argv[4]) when argc == 5
RequestedBatch == IF argc = 5 THEN argv.batch ELSE DefaultBatch

\* mutant: the clamp is left out
ClampBatch_Never(bs, na) == bs

\* if (batch_size > num_alignments) batch_size = num_alignments;
\* (the comparison converts the int num_alignments to size_t)
ClampBatch(bs, na) == IF SizeT_Less(na, bs) THEN na ELSE bs

(***************************************************************************)
(* The Sequences store (lines 52-124).                                     *)
(***************************************************************************)
\* (size_t)num_alignments * (size_t)seq_len * 2L
SeqBytesToAlloc(na, sl) == MulMod(MulMod(Word(na, 8), Word(sl, 8), 8), Word(2, 8), 8)

\* bytes of new int[(size_t)num_alignments * 2L]; the ninth digit keeps the
\* overflow of the element count times sizeof(int)
LenBytesToAlloc(na) == MulMod(MulMod(Word(na, 8), Word(2, 8), 8), Word(4, 1), 9)

\* a request of 2^63 bytes or more, which operator new[] always refuses
Unallocatable(w) == \E d \in 8..Len(w) : w[d] >= (IF d = 8 THEN 2^7 ELSE 1)

Zeros(n) == [q \in 1..n |-> 0]

\* return this->sequences_buffer + (this->seq_len * n);   (as a byte offset)
get_sequence(n) == seq_size * n

\* strncpy(dst, src, n): the characters of src up to n, then zero bytes up to n
strncpy(src, n) == [p \in 1..n |-> IF p <= Len(src) THEN src[p] ELSE 0]

\* buf with bytes stored from byte offset off on
WriteAt(buf, off, bytes) ==
    [q \in 1..Len(buf) |->
        IF q > off /\ q <= off + Len(bytes) THEN bytes[q - off] ELSE buf[q]]

\* the seq_len bytes starting at get_sequence(n)
Slot(buf, n) == SubSeq(buf, get_sequence(n) + 1, get_sequence(n) + seq_size)

\* whether the seq_len bytes starting at get_sequence(n) lie inside the buffer
InRange(n) == n >= 0 /\ get_sequence(n) + seq_size <= Len(sequences_buffer)

(***************************************************************************)
(* The input file.  Line i is a marker followed by letters of ACGT that    *)
(* depend on the line and the position, so copies of different lines       *)
(* differ; bytes are ASCII codes.  A line of length 0 is an empty line.    *)
(***************************************************************************)
Alphabet == <<65, 67, 71, 84>>

Marker(i) == IF i % 2 = 0 THEN 62 ELSE 60

Char(i, p) == Alphabet[((i + p) % 4) + 1]

Line(i, len) == [p \in 1..len |-> IF p = 1 THEN Marker(i) ELSE Char(i, p)]

\* empty, marker only, one short of the stride, exactly the stride, one over
LineLengths == {0, 1, seq_size, seq_size + 1, seq_size + 2}

\* What strncpy reads from line.c_str() + 1.  For an empty line that address
\* lies behind the string's terminator: the bytes there are whatever the
\* string's storage holds, k bytes (code 63) before the next zero byte.
LineSource(line, k) == IF line = <<>> THEN [p \in 1..k |-> 63] ELSE Tail(line)

\* the lines of f whose length is not marker plus stride
Irregular(f) == {i \in 1..Len(f) : Len(f[i]) # seq_size + 1}

(***************************************************************************)
(* Initial state: the process has its command line and nothing else.      *)
(* num_alignments is uninitialised until it is parsed and is not read      *)
(* before; 0 stands for it.                                                *)
(***************************************************************************)
Fresh ==
    /\ pc = "args"
    /\ batch_size = DefaultBatch
    /\ seq_size = 0
    /\ num_alignments = 0
    /\ sequences_buffer = <<>>
    /\ sequences_len = <<>>
    /\ sequences_read = 0
    /\ file = <<>>
    /\ alignments_computed = 0
    /\ total_time = 0
    /\ issued = <<>>
    /\ cnt = 0
    /\ batch_offset = 0
    /\ n_strings = 0
    /\ h_bytes = Word(0, 4)
    /\ h_pattern = <<>>
    /\ h_text = <<>>
    /\ d_pattern_offsets = <<>>
    /\ d_text_offsets = <<>>
    /\ lookups = {}
    /\ diag = "none"
    /\ exit_status = <<>>
    /\ perf = <<>>

Init ==
    /\ argc \in 3..6
    /\ argv \in [seq : 1..MaxStride, num : -1..MaxPairs, batch : -1..MaxBatch]
    /\ argc < 4 => argv.seq = 1 /\ argv.num = 0
    /\ argc # 5 => argv.batch = 0
    /\ Fresh

(***************************************************************************)
(* main, lines 211-230.                                                    *)
(***************************************************************************)
UsageError ==
    /\ pc = "args"
    /\ ~ArgcOk(argc)
    /\ seq_size' = (IF argc >= 4 THEN argv.seq ELSE seq_size)
    /\ num_alignments' = (IF argc >= 4 THEN argv.num ELSE num_alignments)
    /\ diag' = "usage"
    /\ exit_status' = <<ExitFailure>>
    /\ pc' = "failed"
    /\ UNCHANGED <<argc, argv, batch_size, sequences_buffer, sequences_len,
                   sequences_read, file, alignments_computed, total_time, issued, cnt,
                   batch_offset, n_strings, h_bytes, h_pattern, h_text,
                   d_pattern_offsets, d_text_offsets, lookups, perf>>

ParseArgs ==
    /\ pc = "args"
    /\ ArgcOk(argc)
    /\ seq_size' = argv.seq
    /\ num_alignments' = argv.num
    /\ batch_size' = ClampBatch(RequestedBatch, argv.num)
    /\ pc' = "alloc"
    /\ UNCHANGED <<argc, argv, sequences_buffer, sequences_len, sequences_read,
                   file, alignments_computed, total_time, issued, cnt, batch_offset,
                   n_strings, h_bytes, h_pattern, h_text, d_pattern_offsets,
                   d_text_offsets, lookups, diag, exit_status, perf>>

(***************************************************************************)
(* Sequences::Sequences, lines 59-107.                                     *)
(***************************************************************************)
\* new char[seq_bytes_to_alloc] throws std::bad_alloc: caught, exit(-1)
BufferAllocFail ==
    /\ pc = "alloc"
    /\ diag' = "bad_alloc"
    /\ exit_status' = <<ExitMinusOne>>
    /\ pc' = "failed"
    /\ UNCHANGED <<argc, argv, batch_size, seq_size, num_alignments,
                   sequences_buffer, sequences_len, sequences_read, file,
                   alignments_computed, total_time, issued, cnt, batch_offset,
                   n_strings, h_bytes, h_pattern, h_text, d_pattern_offsets,
                   d_text_offsets, lookups, perf>>

\* new int[...] throws outside the try block: std::terminate, SIGABRT (134)
LenAllocFail ==
    /\ pc = "alloc"
    /\ ~Unallocatable(SeqBytesToAlloc(num_alignments, seq_size))
    /\ diag' = "terminate"
    /\ exit_status' = <<128 + 6>>
    /\ pc' = "failed"
    /\ UNCHANGED <<argc, argv, batch_size, seq_size, num_alignments,
                   sequences_buffer, sequences_len, sequences_read, file,
                   alignments_computed, total_time, issued, cnt, batch_offset,
                   n_strings, h_bytes, h_pattern, h_text, d_pattern_offsets,
                   d_text_offsets, lookups, perf>>

\* stands for an int that new int[] left uninitialised; the program never
\* reads an entry of sequences_len
Indeterminate == 1 - 2^30

\* both allocations succeed; memset zeroes the buffer; sequences_len is
\* left uninitialised
AllocOk ==
    /\ pc = "alloc"
    /\ ~Unallocatable(SeqBytesToAlloc(num_alignments, seq_size))
    /\ ~Unallocatable(LenBytesToAlloc(num_alignments))
    /\ LET bytes == SeqBytesToAlloc(num_alignments, seq_size) IN
       sequences_buffer' = IF Unallocatable(bytes) THEN <<>> ELSE Zeros(ToNat(bytes))
    /\ sequences_len' = [q \in 1..(num_alignments * 2) |-> Indeterminate]
    /\ pc' = "open"
    /\ UNCHANGED <<argc, argv, batch_size, seq_size, num_alignments,
                   sequences_read, file, alignments_computed, total_time, issued, cnt,
                   batch_offset, n_strings, h_bytes, h_pattern, h_text,
                   d_pattern_offsets, d_text_offsets, lookups, diag,
                   exit_status, perf>>

\* mutant: the diagnostic is printed and the constructor goes on (no exit)
OpenFail_Continue ==
    /\ pc = "open"
    /\ diag' = "open"
    /\ pc' = "read"
    /\ UNCHANGED <<argc, argv, batch_size, seq_size, num_alignments,
                   sequences_buffer, sequences_len, sequences_read, file,
                   alignments_computed, total_time, issued, cnt, batch_offset,
                   n_strings, h_bytes, h_pattern, h_text, d_pattern_offsets,
                   d_text_offsets, lookups, exit_status, perf>>

\* file.fail(): exit(-1)
OpenFail ==
    /\ pc = "open"
    /\ diag' = "open"
    /\ exit_status' = <<ExitMinusOne>>
    /\ pc' = "failed"
    /\ UNCHANGED <<argc, argv, batch_size, seq_size, num_alignments,
                   sequences_buffer, sequences_len, sequences_read, file,
                   alignments_computed, total_time, issued, cnt, batch_offset,
                   n_strings, h_bytes, h_pattern, h_text, d_pattern_offsets,
                   d_text_offsets, lookups, perf>>

OpenOk ==
    /\ pc = "open"
    /\ pc' = "read"
    /\ UNCHANGED <<argc, argv, batch_size, seq_size, num_alignments,
                   sequences_buffer, sequences_len, sequences_read, file,
                   alignments_computed, total_time, issued, cnt, batch_offset,
                   n_strings, h_bytes, h_pattern, h_text, d_pattern_offsets,
                   d_text_offsets, lookups, diag, exit_status, perf>>

\* mutant: the copy starts at line.c_str(), the marker is not skipped
StoreLine_KeepMarker(buf, n, line, k) ==
    WriteAt(buf, get_sequence(n), strncpy(line, seq_size))

\* the line's bytes as stored by
\* strncpy(this->get_sequence(sequences_read), line.c_str() + 1, seq_len)
StoreLine(buf, n, line, k) ==
    WriteAt(buf, get_sequence(n), strncpy(LineSource(line, k), seq_size))

\* std::getline returns a line.  While sequences_read < num_alignments*2 the
\* line is stored and counted; otherwise the read loop ends with the line
\* consumed and dropped.
ReadLine ==
    /\ pc = "read"
    /\ \E len \in {l \in LineLengths : l = seq_size + 1
                                         \/ Cardinality(Irregular(file)) < MaxIrregular} :
       \E k \in 0..(IF len = 0 /\ SizeT_Less(sequences_read, num_alignments * 2)
                    THEN seq_size ELSE 0) :
         LET line == Line(Len(file), len) IN
         /\ file' = Append(file, line)
         /\ IF SizeT_Less(sequences_read, num_alignments * 2)
            THEN /\ sequences_buffer' =
                        StoreLine(sequences_buffer, sequences_read, line, k)
                 /\ sequences_len' =
                        [sequences_len EXCEPT ![sequences_read + 1] = Len(line) - 1]
                 /\ lookups' = lookups \cup {sequences_read}
                 /\ sequences_read' = sequences_read + 1
                 /\ pc' = "read"
            ELSE /\ pc' = "loop"
                 /\ UNCHANGED <<sequences_buffer, sequences_len, lookups,
                                sequences_read>>
    /\ UNCHANGED <<argc, argv, batch_size, seq_size, num_alignments,
                   alignments_computed, total_time, issued, cnt, batch_offset,
                   n_strings, h_bytes, h_pattern, h_text, d_pattern_offsets,
                   d_text_offsets, diag, exit_status, perf>>

\* std::getline reaches the end of the file
ReadEof ==
    /\ pc = "read"
    /\ pc' = "loop"
    /\ UNCHANGED <<argc, argv, batch_size, seq_size, num_alignments,
                   sequences_buffer, sequences_len, sequences_read, file,
                   alignments_computed, total_time, issued, cnt, batch_offset,
                   n_strings, h_bytes, h_pattern, h_text, d_pattern_offsets,
                   d_text_offsets, lookups, diag, exit_status, perf>>

(***************************************************************************)
(* batch_alignment_test (lines 129-203) and the driver loop of main        *)
(* (lines 239-249).                                                        *)
(***************************************************************************)
\* mutant: the nominal batch size, not clipped to the pairs that remain
CurrBatchSize_Nominal(bs, na, ac) == bs

\* std::min(batch_size, num_alignments - alignments_computed)
CurrBatchSize(bs, na, ac) == SizeT_Min(bs, na - ac)

\* alignments_computed += batch_size;
NextComputed(ac, bs, curr) == ac + bs

\* sequences.get_sequence(batch_offset + i*2)
PatternIndex(off, i) == off + i * 2

\* sequences.get_sequence(batch_offset + (i+1)*2)
TextIndex(off, i) == off + (i + 1) * 2

\* the indices a call hands to get_sequence
BatchLookups(off, n) ==
    {PatternIndex(off, i) : i \in 0..(n - 1)} \cup {TextIndex(off, i) : i \in 0..(n - 1)}

\* n_strings * pattern_len in uint32: the size handed to nvbio::vector
PackedBytes(n, len) == U32Mul(n, len)

\* The packed buffer after a copy loop (the text loop if text, else the
\* pattern loop): PackedBytes zero bytes, then for each i the seq_len bytes at
\* get_sequence of the loop's index stored at i * pattern_len.  A source
\* outside the store yields the byte g.
Gather(off, n, text, g) ==
    [q \in 1..ToNat(PackedBytes(n, seq_size)) |->
        LET i == (q - 1) \div seq_size
            p == (q - 1) % seq_size
            x == IF text THEN TextIndex(off, i) ELSE PatternIndex(off, i)
        IN  IF InRange(x)
            THEN sequences_buffer[get_sequence(x) + p + 1]
            ELSE g]

\* thrust::sequence(begin, end, 0u, len) over the entries idx of the table
OffsetTable(idx, len) == [i \in idx |-> U32Mul(i, len)]

\* the log of calls, kept to at most MaxPairs + 1 entries
Logged(log, off, n) ==
    IF Len(log) < MaxPairs + 1 THEN Append(log, [offset |-> off, n |-> n]) ELSE log

\* the TIMER_MS readings a batch may add
Readings == {m \in 0..MaxMs : total_time + m <= MaxMs}

\* One iteration that returns: the call packs both buffers, builds the offset
\* tables, runs the alignment and adds its time; main advances the counter.
\* A get_sequence index outside the store (undefined behaviour) here reads
\* some byte g.
Batch ==
    /\ pc = "loop"
    /\ SizeT_Less(alignments_computed, num_alignments)
    /\ LET n == CurrBatchSize(batch_size, num_alignments, alignments_computed)
           off == alignments_computed
       IN  /\ \E g \in (IF \A x \in BatchLookups(off, n) : InRange(x)
                        THEN {0} ELSE {0, 63}) :
                /\ h_pattern' = Gather(off, n, FALSE, g)
                /\ h_text' = Gather(off, n, TRUE, g)
           /\ batch_offset' = off
           /\ n_strings' = n
           /\ h_bytes' = PackedBytes(n, seq_size)
           /\ d_pattern_offsets' = OffsetTable(0..n, seq_size)
           /\ d_text_offsets' = OffsetTable(0..n, seq_size)
           /\ lookups' = lookups \cup BatchLookups(off, n)
           /\ issued' = Logged(issued, off, n)
           /\ cnt' = (cnt + 1) % CntPeriod
           /\ alignments_computed' = NextComputed(alignments_computed, batch_size, n)
    /\ \E ms \in Readings : total_time' = total_time + ms
    /\ pc' = "loop"
    /\ UNCHANGED <<argc, argv, batch_size, seq_size, num_alignments,
                   sequences_buffer, sequences_len, sequences_read, file, diag,
                   exit_status, perf>>

\* One iteration in which a memcpy from outside the store faults (undefined
\* behaviour; the DEBUG build's get_sequence returns a null pointer there):
\* the process dies of SIGSEGV (139) inside the call.
BatchFault ==
    /\ pc = "loop"
    /\ SizeT_Less(alignments_computed, num_alignments)
    /\ LET n == CurrBatchSize(batch_size, num_alignments, alignments_computed)
           off == alignments_computed
       IN  /\ \E x \in BatchLookups(off, n) : ~InRange(x)
           /\ batch_offset' = off
           /\ n_strings' = n
           /\ h_bytes' = PackedBytes(n, seq_size)
           /\ lookups' = lookups \cup BatchLookups(off, n)
           /\ issued' = Logged(issued, off, n)
    /\ exit_status' = <<128 + 11>>
    /\ pc' = "crashed"
    /\ UNCHANGED <<argc, argv, batch_size, seq_size, num_alignments,
                   sequences_buffer, sequences_len, sequences_read, file,
                   alignments_computed, total_time, cnt, h_pattern, h_text,
                   d_pattern_offsets, d_text_offsets, diag, perf>>

(***************************************************************************)
(* The throughput line (main, lines 251-258).                              *)
(***************************************************************************)
\* The values (uint64_t)(seq_size*seq_size) can take.  The product is an int
\* product: when it does not fit an int it overflows (undefined behaviour),
\* and the build either keeps its low 32 bits, sign-extended by the cast,
\* or computes it wide.
SeqSizeSquared(s) ==
    UNION {IF \A d \in 5..8 : wide[d] = 0 /\ wide[4] < 2^7
           THEN {wide}
           ELSE {SubSeq(wide, 1, 4) \o (IF wide[4] >= 2^7 THEN <<255, 255, 255, 255>>
                                                           ELSE <<0, 0, 0, 0>>),
                 wide} :
           wide \in {MulMod(Word(s, 4), Word(s, 4), 8)}}

\* num_alignments * (uint64_t)(...), a uint64_t product
PerfNumerator(na, sq) == MulMod(Word(na, 8), sq, 8)

\* the loop has ended: the figure is printed and main returns 0
Report ==
    /\ pc = "loop"
    /\ ~SizeT_Less(alignments_computed, num_alignments)
    /\ \E sq \in SeqSizeSquared(seq_size) :
           perf' = <<PerfNumerator(num_alignments, sq)>>
    /\ exit_status' = <<0>>
    /\ pc' = "done"
    /\ UNCHANGED <<argc, argv, batch_size, seq_size, num_alignments,
                   sequences_buffer, sequences_len, sequences_read, file,
                   alignments_computed, total_time, issued, cnt, batch_offset,
                   n_strings, h_bytes, h_pattern, h_text, d_pattern_offsets,
                   d_text_offsets, lookups, diag>>

Next ==
    \/ UsageError
    \/ ParseArgs
    \/ BufferAllocFail
    \/ LenAllocFail
    \/ AllocOk
    \/ OpenFail
    \/ OpenOk
    \/ ReadLine
    \/ ReadEof
    \/ Batch
    \/ BatchFault
    \/ Report

Spec == Init /\ [][Next]_vars

\* main is one thread that runs on until it returns or the process dies
FairSpec == Spec /\ WF_vars(Next)

(***************************************************************************)
(* The size-level specification: command lines with strides, pair counts   *)
(* and batch sizes of realistic magnitude.  The constructor's successful   *)
(* path and the copy loops are taken without enumerating any byte; every   *)
(* size, offset and counter is computed by the operators used above.       *)
(***************************************************************************)
BigStrides == {64, 46340, 46341, 65536, 100000}

BigPairs == {100, 65536, 100000}

BigBatches == {50000, 65536}

SizeInit ==
    /\ argc \in {4, 5}
    /\ argv \in [seq : BigStrides, num : BigPairs, batch : BigBatches \cup {0}]
    /\ (argc = 5) = (argv.batch # 0)
    /\ Fresh

\* Sequences::Sequences returns: both allocations and the open succeeded and
\* the read loop has ended
SizeConstruct ==
    /\ pc = "alloc"
    /\ ~Unallocatable(SeqBytesToAlloc(num_alignments, seq_size))
    /\ ~Unallocatable(LenBytesToAlloc(num_alignments))
    /\ pc' = "loop"
    /\ UNCHANGED <<argc, argv, batch_size, seq_size, num_alignments,
                   sequences_buffer, sequences_len, sequences_read, file,
                   alignments_computed, total_time, issued, cnt, batch_offset,
                   n_strings, h_bytes, h_pattern, h_text, d_pattern_offsets,
                   d_text_offsets, lookups, diag, exit_status, perf>>

\* the entries of an offset table that are kept: the first two and last two
SampleIdx(n) == {0, 1, n - 1, n} \cap 0..n

\* One iteration of the driver loop, sizes only.
SizeBatch ==
    /\ pc = "loop"
    /\ SizeT_Less(alignments_computed, num_alignments)
    /\ LET n == CurrBatchSize(batch_size, num_alignments, alignments_computed)
           off == alignments_computed
       IN  /\ batch_offset' = off
           /\ n_strings' = n
           /\ h_bytes' = PackedBytes(n, seq_size)
           /\ d_pattern_offsets' = OffsetTable(SampleIdx(n), seq_size)
           /\ d_text_offsets' = OffsetTable(SampleIdx(n), seq_size)
           /\ lookups' = lookups \cup BatchLookups(off, 1) \cup
                             {PatternIndex(off, n - 1), TextIndex(off, n - 1)}
           /\ issued' = Logged(issued, off, n)
           /\ cnt' = (cnt + 1) % CntPeriod
           /\ alignments_computed' = NextComputed(alignments_computed, batch_size, n)
    /\ \E ms \in Readings : total_time' = total_time + ms
    /\ pc' = "loop"
    /\ UNCHANGED <<argc, argv, batch_size, seq_size, num_alignments,
                   sequences_buffer, sequences_len, sequences_read, file,
                   h_pattern, h_text, diag, exit_status, perf>>

SizeNext ==
    \/ ParseArgs
    \/ SizeConstruct
    \/ SizeBatch
    \/ Report

SizeSpec == SizeInit /\ [][SizeNext]_vars

(***************************************************************************)
(* Properties.                                                             *)
(***************************************************************************)
\* main has entered or left the driver loop
InDriver == pc \in {"loop", "done", "crashed"}

\* the batch size passed its clamp and lies in 1..num_alignments
ProperBatch == InDriver /\ batch_size >= 1 /\ batch_size <= num_alignments

Min(a, b) == IF a < b THEN a ELSE b

\* bytes of slot k of a packed buffer
PackedSlot(buf, k) == SubSeq(buf, k * seq_size + 1, k * seq_size + seq_size)

\* C1: in the driver loop, for T >= 1 and 1 <= B <= T, alignments_computed
\* never exceeds T and equals T when the loop has exited.
C1_CounterNeverOvershoots ==
    ProperBatch =>
        /\ alignments_computed <= num_alignments
        /\ (pc = "done" => alignments_computed = num_alignments)

\* C2: after a batch_alignment_test(sequences, batch_offset, n) call, slot k
\* of the packed patterns is a copy of store slot 2*(batch_offset+k) and slot
\* k of the packed texts a copy of store slot 2*(batch_offset+k)+1.
C2_PackedPairs ==
    (pc \in {"loop", "done"} /\ issued # <<>>) =>
        \A k \in 0..(n_strings - 1) :
            /\ PackedSlot(h_pattern, k) = Slot(sequences_buffer, 2 * (batch_offset + k))
            /\ PackedSlot(h_text, k) = Slot(sequences_buffer, 2 * (batch_offset + k) + 1)

\* the batches C3 names: the j-th at pair offset j*B with min(B, T - j*B) pairs
ExpectedBatches(T, B) ==
    [j \in 1..((T + B - 1) \div B) |->
        [offset |-> (j - 1) * B, n |-> Min(B, T - (j - 1) * B)]]

\* the pairs a call covers
Window(b) == b.offset .. (b.offset + b.n - 1)

\* C3: for T >= 1 and 1 <= B <= T the calls made so far are, in order, the
\* first of the ceil(T/B) expected batches, and when the loop has exited they
\* are all of them: disjoint windows that cover [0, T), the last one of
\* T mod B pairs (B when B divides T).
C3_BatchesInOrder ==
    ProperBatch =>
        LET want == ExpectedBatches(num_alignments, batch_size) IN
        /\ Len(issued) <= Len(want)
        /\ issued = SubSeq(want, 1, Len(issued))
        /\ pc = "done" =>
              /\ Len(issued) = (num_alignments + batch_size - 1) \div batch_size
              /\ \A i, j \in 1..Len(issued) :
                     i # j => Window(issued[i]) \cap Window(issued[j]) = {}
              /\ UNION {Window(issued[i]) : i \in 1..Len(issued)}
                     = 0..(num_alignments - 1)
              /\ issued[Len(issued)].n =
                     (IF num_alignments % batch_size = 0 THEN batch_size
                      ELSE num_alignments % batch_size)

\* a run with T not a multiple of B has made all its calls
C3_Witness ==
    /\ pc = "done"
    /\ ProperBatch
    /\ num_alignments % batch_size # 0
    /\ Len(issued) = 2

\* the command line asks for a batch_size larger than num_alignments
AsksTooMuch == ArgcOk(argc) /\ RequestedBatch > argv.num

\* C4 as claimed: whenever the requested batch_size exceeds num_alignments
\* the driver runs with batch_size = num_alignments and executes exactly one
\* batch, of num_alignments pairs.
C4_ClampOneBatch ==
    AsksTooMuch =>
        /\ InDriver => batch_size = num_alignments
        /\ pc = "done" => issued = <<[offset |-> 0, n |-> num_alignments]>>

\* C4 as amended: the same for num_alignments >= 1; the driver makes no call
\* but the one at offset 0 for num_alignments pairs.
C4_ClampOneBatchAmended ==
    (AsksTooMuch /\ argv.num >= 1) =>
        /\ InDriver =>
              /\ batch_size = num_alignments
              /\ issued \in {<<>>, <<[offset |-> 0, n |-> num_alignments]>>}
        /\ pc = "done" => issued = <<[offset |-> 0, n |-> num_alignments]>>

\* the default batch size was clamped and the single batch has run
C4_Witness ==
    /\ pc = "done"
    /\ argc = 4
    /\ num_alignments = 2
    /\ issued = <<[offset |-> 0, n |-> 2]>>

\* C5: while and after the constructor reads the file, the buffer has
\* 2*P*S bytes; slot i of a stored line that has its marker holds the first
\* min(len_i, S) characters after the marker and zero bytes from len_i on;
\* every slot not yet stored is zero, so storing a line writes no other
\* slot; a file of fewer than 2*P lines ends the loop without an error.
C5_StoreContents ==
    pc \in {"read", "loop", "done", "crashed"} =>
        /\ Len(sequences_buffer) = 2 * num_alignments * seq_size
        /\ sequences_read = Min(Len(file), 2 * num_alignments)
        /\ \A i \in 0..(2 * num_alignments - 1) :
              LET slot == Slot(sequences_buffer, i) IN
              IF i < sequences_read
              THEN file[i + 1] # <<>> =>
                     /\ \A p \in 1..Min(Len(file[i + 1]) - 1, seq_size) :
                            slot[p] = file[i + 1][p + 1]
                     /\ \A p \in Len(file[i + 1])..seq_size : slot[p] = 0
                     /\ sequences_len[i + 1] = Len(file[i + 1]) - 1
              ELSE slot = Zeros(seq_size)
        /\ (pc # "read" /\ Len(file) < 2 * num_alignments) => diag = "none"

\* a file of three lines for two pairs, one line shorter than the stride
C5_Witness ==
    /\ pc = "loop"
    /\ seq_size = 2
    /\ num_alignments = 2
    /\ Len(file) = 3
    /\ \E i \in 1..3 : Len(file[i]) = 2

\* the sizes of all calls made
RECURSIVE PairsIssued(_)
PairsIssued(log) == IF log = <<>> THEN 0 ELSE log[1].n + PairsIssued(Tail(log))

\* C6: a wrong argument count ends the process with a non-zero status before
\* the store is constructed; a failed allocation or open ends it with a
\* non-zero status; in these cases no batch runs, nothing further happens
\* and no throughput is printed; status 0 comes only with all pairs batched.
C6_ErrorsTerminal ==
    /\ (~ArgcOk(argc) /\ pc # "args") =>
          /\ pc = "failed" /\ diag = "usage"
          /\ sequences_len = <<>> /\ file = <<>> /\ lookups = {}
    /\ diag # "none" =>
          /\ pc = "failed"
          /\ exit_status # <<>> /\ exit_status[1] # 0
          /\ issued = <<>>
          /\ perf = <<>>
          /\ ~ENABLED Next
    /\ pc = "failed" => diag # "none"
    /\ perf # <<>> => exit_status = <<0>>
    /\ exit_status = <<0>> =>
          /\ pc = "done"
          /\ ~SizeT_Less(alignments_computed, num_alignments)
          /\ PairsIssued(issued) = num_alignments

\* the store was allocated and the file could not be opened
C6_Witness == pc = "failed" /\ diag = "open" /\ Len(sequences_len) = 2

\* C7: the printed throughput is (total_pairs * stride^2) / seconds / 1e9
\* with the exact product as numerator.
C7_ExactNumerator ==
    pc = "done" =>
        Norm(perf[1]) =
            Norm(MulMod(Word(num_alignments, 4),
                        MulMod(Word(seq_size, 4), Word(seq_size, 4), 8), 12))

\* C8: each packed buffer has exactly n * S bytes and each offset table has
\* the entries i * S for i in 0..n, whatever n and S are.
C8_SizesAndOffsets ==
    (pc \in {"loop", "done"} /\ issued # <<>>) =>
        /\ Norm(h_bytes) = ExactMul(n_strings, seq_size)
        /\ n_strings \in DOMAIN d_pattern_offsets
        /\ n_strings \in DOMAIN d_text_offsets
        /\ \A i \in DOMAIN d_pattern_offsets :
               Norm(d_pattern_offsets[i]) = ExactMul(i, seq_size)
        /\ \A i \in DOMAIN d_text_offsets :
               Norm(d_text_offsets[i]) = ExactMul(i, seq_size)

\* C9: with an accepted argument count and non-negative num_alignments and
\* batch_size the run eventually prints its throughput or dies.
C9_Terminates ==
    (ArgcOk(argc) /\ argv.num >= 0 /\ RequestedBatch >= 0)
        => <>(pc \in {"done", "failed", "crashed"})

\* C10: with P >= 1 and B >= 1 every index handed to get_sequence lies in
\* 0 .. 2*P - 1.
C10_LookupsInStore ==
    (InDriver /\ num_alignments >= 1 /\ batch_size >= 1) =>
        \A n \in lookups : 0 <= n /\ n < 2 * num_alignments

====
